---- MODULE Spec2Model ----
(***************************************************************************)
(* State-machine model of utils/util_model.py: EmbedNet, TripletNet and    *)
(* the LightningTripletNet orchestrator (step handlers, epoch-end           *)
(* aggregation, misclassified-example export).                              *)
(*                                                                         *)
(* Tensors over the batch dimension are sequences.  Images, features and    *)
(* embeddings are small integers (one-dimensional tensors).  Distances and  *)
(* losses are counted in units of the eps = 1e-6 of F.pairwise_distance,   *)
(* so |x1 - x2 + eps| is exact in the integers: an embedding difference of  *)
(* 1 is EpsInv units and eps is 1 unit.  A mean is the pair <<sum, count>>. *)
(***************************************************************************)
EXTENDS Integers, Sequences, FiniteSets, TLC

VARIABLES
    backbone,                 \* EmbedNet.backbone  : image   -> feature
    model,                    \* EmbedNet.model     : feature -> embedding
    validation_step_outputs,  \* list of (loss, dist_pos, dist_neg)
    test_step_outputs,        \* list of (a, p, n, dist_pos, dist_neg)
    last_call                 \* what the most recent handler call did

vars == <<backbone, model, validation_step_outputs, test_step_outputs, last_call>>

----------------------------------------------------------------------------
(* Bounds of the model *)

MaxSamples == 3      \* samples accumulated in both lists together (Spec)
MaxCapBatch == 7     \* samples per batch (SpecCap)
MaxCapSteps == 3     \* test_step calls per test epoch (SpecCap)
MaxScanBatch == 3    \* samples per batch (SpecScan)
MaxScanSteps == 2    \* batches in the scanned list (SpecScan)

BatchLens == {1, 2}  \* samples per batch (Spec, SpecNet)

Images == {0, 1}
Features == {0, 1}
Embeddings == {0, 1}

(* Program constants *)
ExportCap == 10      \* "if saved_count >= 10"
Margin == 1          \* config.margin (float > 0)
EpsInv == 1000000    \* 1 / eps of F.pairwise_distance (eps = 1e-6)

\* the distances two embeddings of Embeddings can be at: |d + eps|, d = 0, -1, 1
Distances == {1, EpsInv - 1, EpsInv + 1}

\* thresholds[0] of roc_curve: above every score and distance
Inf == 2 * EpsInv

Backbones == [Images -> Features]
Models == [Features -> Embeddings]

\* the scores (-distance), the distances and Inf: one value for every way a
\* threshold can lie among the scores and among the distances
ThresholdValues == {0 - d : d \in Distances} \cup Distances \cup {Inf}

----------------------------------------------------------------------------
(* Library helpers *)

RECURSIVE SumSeq(_)
SumSeq(s) == IF s = <<>> THEN 0 ELSE Head(s) + SumSeq(Tail(s))

\* np.mean over a 1-D array, kept exact as <<sum, count>>
np_mean(s) == <<SumSeq(s), Len(s)>>

\* torch.cat / np.concatenate over a list of 1-D tensors
RECURSIVE torch_cat(_)
torch_cat(ts) == IF ts = <<>> THEN <<>> ELSE Head(ts) \o torch_cat(Tail(ts))

np_concatenate_swapped(x, y) == y \o x
np_concatenate(x, y) == x \o y

np_ones_like(s) == [k \in 1..Len(s) |-> 1]
np_zeros_like(s) == [k \in 1..Len(s) |-> 0]
Negate(s) == [k \in 1..Len(s) |-> 0 - s[k]]

Abs(x) == IF x < 0 THEN 0 - x ELSE x
Max(x, y) == IF x >= y THEN x ELSE y

\* F.pairwise_distance(x1, x2, p=2, eps=1e-6), per sample: |x1 - x2 + eps|
pairwise_distance(x1, x2) ==
    [k \in 1..Len(x1) |-> Abs((x1[k] - x2[k]) * EpsInv + 1)]

\* nn.TripletMarginLoss(margin, reduction='none')(a, p, n):
\* max(d(a, p) - d(a, n) + margin, 0) with d = pairwise_distance
TripletMarginLoss_none(ea, ep, en) ==
    [k \in 1..Len(ea) |->
        Max(pairwise_distance(ea, ep)[k] - pairwise_distance(ea, en)[k]
                + Margin * EpsInv, 0)]

\* nn.TripletMarginLoss(margin)(a, p, n): reduction='mean'
TripletMarginLoss_mean(ea, ep, en) == np_mean(TripletMarginLoss_none(ea, ep, en))

----------------------------------------------------------------------------
(* EmbedNet and TripletNet *)

\* EmbedNet.forward on one image
EmbedNet_forward(bb, md, x) == md[bb[x]]

\* self.embed_net(t) on a batch tensor
embed_net(bb, md, t) == [k \in 1..Len(t) |-> EmbedNet_forward(bb, md, t[k])]

TripletNet_forward_headless(bb, md, a, p, n) ==
    <<[k \in 1..Len(a) |-> bb[a[k]]], embed_net(bb, md, p), embed_net(bb, md, n)>>
TripletNet_forward(bb, md, a, p, n) ==
    <<embed_net(bb, md, a), embed_net(bb, md, p), embed_net(bb, md, n)>>

TripletNet_feature_extract(bb, md, x) == embed_net(bb, md, x)

----------------------------------------------------------------------------
(* Python list operations on the accumulators *)

list_append_reset(l, e) == <<e>>
list_append(l, e) == Append(l, e)

list_clear_noop(l) == l
list_clear(l) == <<>>

----------------------------------------------------------------------------
(* Inputs *)

\* The anchor image of the step batches is fixed; backbone and model range
\* over all functions, so every pattern of distances still occurs.
Anchors == {0}

Tensors(lens) == UNION {[1..k -> Images] : k \in lens}
AnchorTensors(lens) == UNION {[1..k -> Anchors] : k \in lens}

\* batch = (a, p, n), three tensors of the same length, one of lens
BatchesOf(lens) == {b \in Tensors(lens) \X Tensors(lens) \X Tensors(lens) :
                    Len(b[1]) = Len(b[2]) /\ Len(b[2]) = Len(b[3])}
StepBatches(lens) == {b \in AnchorTensors(lens) \X Tensors(lens) \X Tensors(lens) :
                    Len(b[1]) = Len(b[2]) /\ Len(b[2]) = Len(b[3])}

\* batches of 1 or n samples that are all the same triple
UniformBatches(n) ==
    {<<[k \in 1..len |-> a], [k \in 1..len |-> p], [k \in 1..len |-> q]>> :
        len \in {1, n}, a \in Anchors, p \in Images, q \in Images}

TrainBatches == StepBatches({1})
Batches == StepBatches(BatchLens)
CapBatches == UniformBatches(MaxCapBatch)
NetTensors == Tensors(BatchLens)
NetBatches == BatchesOf(BatchLens)

RECURSIVE Samples(_)
Samples(outs) == IF outs = <<>> THEN 0
                 ELSE Len(Head(outs)[Len(Head(outs))]) + Samples(Tail(outs))

\* room left for a batch under the bound on accumulated samples
Room(batch) ==
    Samples(validation_step_outputs) + Samples(test_step_outputs) + Len(batch[1])
        <= MaxSamples

----------------------------------------------------------------------------
(* Records of a handler call *)

NoCall ==
    [op |-> "init", again |-> FALSE, raised |-> FALSE, args |-> <<>>, ret |-> <<>>,
     logged |-> <<>>, roc |-> <<>>, best_threshold |-> 0, y_pred |-> <<>>,
     cm |-> <<>>, rendered |-> <<>>, saved |-> <<>>, examined |-> <<>>]

Call(op) == [NoCall EXCEPT !.op = op]

\* an epoch-end call; again: the call before it was a successful call of the
\* same handler
EndCall(op) ==
    [NoCall EXCEPT !.op = op, !.again = (last_call.op = op /\ ~last_call.raised)]

----------------------------------------------------------------------------
(* Epoch-end computations *)

\* column c of the accumulated tuples: [x[c] for x in outs]
Column(outs, c) == [k \in 1..Len(outs) |-> outs[k][c]]

\* y_pred = (-y_scores >= best_threshold).astype(int)
y_pred_of(y_scores, best_threshold) ==
    [k \in 1..Len(y_scores) |-> IF (0 - y_scores[k]) >= best_threshold THEN 1 ELSE 0]

\* sklearn confusion_matrix(y_true, y_pred): cm[t][q] = #{k : true = t-1, pred = q-1}
confusion_matrix(y_true, y_pred) ==
    [t \in 1..2 |-> [q \in 1..2 |->
        Cardinality({k \in 1..Len(y_true) : y_true[k] = t - 1 /\ y_pred[k] = q - 1})]]

\* find_best_threshold(fpr, tpr, thresholds): the policy is not part of the
\* source at hand; any value may be returned.  For an epoch with distances
\* y_scores the values below, the negated distances (roc_curve's thresholds),
\* the distances and Inf, stand for all of them: any other value compares
\* with every score and every distance of the epoch as one of these does.
find_best_threshold(y_scores) ==
    LET ds == {y_scores[k] : k \in 1..Len(y_scores)}
    IN  {0 - d : d \in ds} \cup ds \cup {Inf}

\* the misclassification tests of the export scan
pos_misclassified(d, best_threshold) == d >= best_threshold
neg_misclassified(d, best_threshold) == d < best_threshold

\* save_images(anchor, positive, negative, batch_idx, img_idx, wrong, label_type)
save_images(anchor, positive, negative, batch_idx, img_idx, wrong, label_type) ==
    [batch_idx |-> batch_idx, img_idx |-> img_idx, wrong |-> wrong,
     label_type |-> label_type,
     files |-> IF label_type = "pos"
               THEN <<<<"anchor_pos", anchor>>, <<"positive", positive>>>>
               ELSE IF label_type = "neg"
               THEN <<<<"anchor_neg", anchor>>, <<"negative", negative>>>>
               ELSE <<>>]

ScanStart == [saved_count |-> 0, saved |-> <<>>, examined |-> <<>>]

\* body of the inner loop for sample i (1-based here, 0-based in the code)
ScanSample(st, e, b, i, t) ==
    LET s0 == [st EXCEPT !.examined = Append(@, <<b - 1, i - 1, st.saved_count>>)]
        s1 == IF pos_misclassified(e[4][i], t)
              THEN [s0 EXCEPT
                      !.saved = Append(@, save_images(e[1][i], e[2][i], e[3][i],
                                                      b - 1, i - 1, e[4][i], "pos")),
                      !.saved_count = @ + 1]
              ELSE s0
    IN  IF neg_misclassified(e[5][i], t)
        THEN [s1 EXCEPT
                !.saved = Append(@, save_images(e[1][i], e[2][i], e[3][i],
                                                b - 1, i - 1, e[5][i], "neg")),
                !.saved_count = @ + 1]
        ELSE s1

\* for i in range(len(dist_pos)): if saved_count >= 10: break; ...
RECURSIVE ScanBatch(_, _, _, _, _)
ScanBatch(st, e, b, i, t) ==
    IF i > Len(e[4]) THEN st
    ELSE IF st.saved_count >= ExportCap THEN st
    ELSE ScanBatch(ScanSample(st, e, b, i, t), e, b, i + 1, t)

\* for batch_idx, (...) in enumerate(outs): ...; if saved_count >= 10: break
RECURSIVE ScanOutputs(_, _, _, _)
ScanOutputs(st, outs, b, t) ==
    IF b > Len(outs) THEN st
    ELSE LET s1 == ScanBatch(st, outs[b], b, 1, t)
         IN  IF s1.saved_count >= ExportCap THEN s1
             ELSE ScanOutputs(s1, outs, b + 1, t)

ExportScan(outs, t) == ScanOutputs(ScanStart, outs, 1, t)

----------------------------------------------------------------------------
Init ==
    /\ backbone \in Backbones
    /\ model \in Models
    /\ validation_step_outputs = <<>>
    /\ test_step_outputs = <<>>
    /\ last_call = NoCall

\* The handlers read the network only through the distances: with the
\* backbone fixed and the head ranging over all functions, every pattern of
\* distances over the step batches occurs.
InitSteps ==
    /\ Init
    /\ backbone = [x \in Images |-> x]

\* LightningTripletNet.forward
forward(a, p, n) ==
    /\ last_call' = [Call("forward") EXCEPT
                        !.args = <<a, p, n>>,
                        !.ret = TripletNet_forward(backbone, model, a, p, n)]
    /\ UNCHANGED <<backbone, model, validation_step_outputs, test_step_outputs>>

\* TripletNet.feature_extract
feature_extract(x) ==
    /\ last_call' = [Call("feature_extract") EXCEPT
                        !.args = <<x>>,
                        !.ret = TripletNet_feature_extract(backbone, model, x)]
    /\ UNCHANGED <<backbone, model, validation_step_outputs, test_step_outputs>>

training_step(batch) ==
    LET e == TripletNet_forward(backbone, model, batch[1], batch[2], batch[3])
        loss == TripletMarginLoss_mean(e[1], e[2], e[3])
    IN  /\ last_call' = [Call("training_step") EXCEPT
                            !.logged = <<<<"train_loss", loss>>>>,
                            !.ret = loss]
        /\ UNCHANGED <<backbone, model, validation_step_outputs, test_step_outputs>>

validation_step(batch) ==
    LET e == TripletNet_forward(backbone, model, batch[1], batch[2], batch[3])
        loss == TripletMarginLoss_none(e[1], e[2], e[3])
        dist_pos == pairwise_distance(e[1], e[2])
        dist_neg == pairwise_distance(e[1], e[3])
    IN  /\ validation_step_outputs' =
               list_append(validation_step_outputs, <<loss, dist_pos, dist_neg>>)
        /\ last_call' = [Call("validation_step") EXCEPT
                            !.ret = <<loss, dist_pos, dist_neg>>]
        /\ UNCHANGED <<backbone, model, test_step_outputs>>

on_validation_epoch_end ==
    IF validation_step_outputs = <<>>
    THEN \* torch.cat of an empty list raises; nothing after line 74 runs
         /\ last_call' = [EndCall("on_validation_epoch_end") EXCEPT !.raised = TRUE]
         /\ UNCHANGED <<backbone, model, validation_step_outputs, test_step_outputs>>
    ELSE LET loss == torch_cat(Column(validation_step_outputs, 1))
             dist_pos == torch_cat(Column(validation_step_outputs, 2))
             dist_neg == torch_cat(Column(validation_step_outputs, 3))
             avg_loss == np_mean(loss)
             avg_dist_pos == np_mean(dist_pos)
             avg_dist_neg == np_mean(dist_neg)
             y_true == np_concatenate(np_ones_like(dist_pos), np_zeros_like(dist_neg))
             y_scores == np_concatenate(dist_pos, dist_neg)
         IN  \E best_threshold \in find_best_threshold(y_scores) :
               LET y_pred == y_pred_of(y_scores, best_threshold)
               IN  /\ validation_step_outputs' = list_clear(validation_step_outputs)
                   /\ last_call' =
                        [EndCall("on_validation_epoch_end") EXCEPT
                           !.logged = <<<<"val_loss", avg_loss>>,
                                        <<"dist_pos", avg_dist_pos>>,
                                        <<"dist_neg", avg_dist_neg>>>>,
                           !.roc = <<y_true, Negate(y_scores)>>,
                           !.best_threshold = best_threshold,
                           !.y_pred = y_pred,
                           !.cm = confusion_matrix(y_true, y_pred),
                           !.rendered = <<"roc_curve_epoch", "confusion_matrix_epoch">>,
                           !.ret = <<avg_loss, avg_dist_pos, avg_dist_neg>>]
                   /\ UNCHANGED <<backbone, model, test_step_outputs>>

test_step(batch) ==
    LET e == TripletNet_forward(backbone, model, batch[1], batch[2], batch[3])
        loss == TripletMarginLoss_none(e[1], e[2], e[3])
        dist_pos == pairwise_distance(e[1], e[2])
        dist_neg == pairwise_distance(e[1], e[3])
    IN  /\ test_step_outputs' =
               list_append(test_step_outputs,
                           <<batch[1], batch[2], batch[3], dist_pos, dist_neg>>)
        /\ last_call' = [Call("test_step") EXCEPT !.ret = loss]
        /\ UNCHANGED <<backbone, model, validation_step_outputs>>

on_test_epoch_end ==
    IF test_step_outputs = <<>>
    THEN \* torch.cat of an empty list raises; nothing after line 107 runs
         /\ last_call' = [EndCall("on_test_epoch_end") EXCEPT !.raised = TRUE]
         /\ UNCHANGED <<backbone, model, validation_step_outputs, test_step_outputs>>
    ELSE LET dist_pos == torch_cat(Column(test_step_outputs, 4))
             dist_neg == torch_cat(Column(test_step_outputs, 5))
             cleared == list_clear(test_step_outputs)
             y_true == np_concatenate(np_ones_like(dist_pos), np_zeros_like(dist_neg))
             y_scores == np_concatenate(dist_pos, dist_neg)
         IN  \E best_threshold \in find_best_threshold(y_scores) :
               LET y_pred == y_pred_of(y_scores, best_threshold)
                   \* the loop reads self.test_step_outputs after the clear
                   scan == ExportScan(cleared, best_threshold)
               IN  /\ test_step_outputs' = cleared
                   /\ last_call' =
                        [EndCall("on_test_epoch_end") EXCEPT
                           !.roc = <<y_true, Negate(y_scores)>>,
                           !.best_threshold = best_threshold,
                           !.y_pred = y_pred,
                           !.cm = confusion_matrix(y_true, y_pred),
                           !.rendered = <<"roc_curve_test", "confusion_matrix">>,
                           !.saved = scan.saved,
                           !.examined = scan.examined]
                   /\ UNCHANGED <<backbone, model, validation_step_outputs>>

\* lines 121-134 alone, on the list they iterate
export_scan(best_threshold) ==
    LET scan == ExportScan(test_step_outputs, best_threshold)
    IN  /\ last_call' = [Call("export_scan") EXCEPT
                            !.best_threshold = best_threshold,
                            !.saved = scan.saved,
                            !.examined = scan.examined]
        /\ UNCHANGED <<backbone, model, validation_step_outputs, test_step_outputs>>

----------------------------------------------------------------------------
(* Spec: the step and epoch-end handlers, in any interleaving *)

Next ==
    \/ \E b \in TrainBatches : training_step(b)
    \/ \E b \in Batches : Room(b) /\ validation_step(b)
    \/ on_validation_epoch_end
    \/ \E b \in Batches : Room(b) /\ test_step(b)
    \/ on_test_epoch_end

Spec == InitSteps /\ [][Next]_vars

(* SpecNet: the two entry points of the network *)

NextNet ==
    \/ \E x \in NetTensors : feature_extract(x)
    \/ \E b \in NetBatches : forward(b[1], b[2], b[3])

SpecNet == Init /\ [][NextNet]_vars

(* SpecCap: one long test epoch *)

NextCap ==
    \/ \E b \in CapBatches :
          Len(test_step_outputs) < MaxCapSteps /\ test_step(b)
    \/ on_test_epoch_end

SpecCap == InitSteps /\ [][NextCap]_vars

(* SpecScan: the export loop applied to every list of accumulated batches *)

TestEntry(bb, md, batch) ==
    LET e == TripletNet_forward(bb, md, batch[1], batch[2], batch[3])
    IN  <<batch[1], batch[2], batch[3],
          pairwise_distance(e[1], e[2]), pairwise_distance(e[1], e[3])>>

ScanLists(bb, md) ==
    LET entries == {TestEntry(bb, md, b) : b \in StepBatches(1..MaxScanBatch)}
    IN  UNION {[1..k -> entries] : k \in 0..MaxScanSteps}

InitScan ==
    /\ backbone = [x \in Images |-> x]
    /\ model \in Models
    /\ validation_step_outputs = <<>>
    /\ test_step_outputs \in ScanLists(backbone, model)
    /\ last_call = NoCall

NextScan == \E t \in ThresholdValues : export_scan(t)

SpecScan == InitScan /\ [][NextScan]_vars

----------------------------------------------------------------------------
(* Vocabulary of the properties *)

EndOps == {"on_validation_epoch_end", "on_test_epoch_end"}

\* number of samples in column c of the batches before batch b
RECURSIVE Offset(_, _, _)
Offset(outs, b, c) ==
    IF b = 1 THEN 0 ELSE Offset(outs, b - 1, c) + Len(outs[b - 1][c])

Total(outs, c) == Offset(outs, Len(outs) + 1, c)

\* column c of all batches, batch by batch in accumulation order
Flat(outs, c) ==
    [k \in 1..Total(outs, c) |->
        LET b == CHOOSE x \in 1..Len(outs) :
                    Offset(outs, x, c) < k /\ k <= Offset(outs, x, c) + Len(outs[x][c])
        IN  outs[b][c][k - Offset(outs, b, c)]]

\* the step taken is a successful call of the epoch-end handler op
EndOk(op) == last_call'.op = op /\ ~last_call'.raised

\* the qualifying misclassified pairs of one sample, positive first
QualSample(e, b, i, t) ==
    (IF e[4][i] >= t THEN <<<<b - 1, i - 1, "pos">>>> ELSE <<>>)
        \o (IF e[5][i] < t THEN <<<<b - 1, i - 1, "neg">>>> ELSE <<>>)

RECURSIVE QualBatch(_, _, _, _)
QualBatch(e, b, i, t) ==
    IF i > Len(e[4]) THEN <<>> ELSE QualSample(e, b, i, t) \o QualBatch(e, b, i + 1, t)

\* all qualifying pairs of the accumulated batches in (batch, sample) scan order
RECURSIVE Qualifying(_, _, _)
Qualifying(outs, b, t) ==
    IF b > Len(outs) THEN <<>>
    ELSE QualBatch(outs[b], b, 1, t) \o Qualifying(outs, b + 1, t)

\* how many pairs qualify before sample (b, i) is reached
QualBefore(outs, b, i, t) ==
    LET q == Qualifying(outs, 1, t)
    IN  Cardinality({k \in 1..Len(q) :
            q[k][1] < b - 1 \/ (q[k][1] = b - 1 /\ q[k][2] < i - 1)})

SavedKeys(saved) ==
    [k \in 1..Len(saved) |-> <<saved[k].batch_idx, saved[k].img_idx, saved[k].label_type>>]

Range(s) == {s[k] : k \in 1..Len(s)}

\* roc_curve's thresholds for the scores y_score: the scores and thresholds[0]
RocThresholds(y_score) == Range(y_score) \cup {Inf}

----------------------------------------------------------------------------
(* C1: when the batches accumulated by test_step hold at least 20           *)
(* qualifying misclassified pairs, on_test_epoch_end exports exactly 10,    *)
(* the first 10 in (batch index, sample index) scan order.  Stated for the   *)
(* thresholds roc_curve yields on the accumulated scores.                   *)
C1_ExportCapReached ==
    [][(/\ EndOk("on_test_epoch_end")
        /\ last_call'.best_threshold \in RocThresholds(last_call'.roc[2])) =>
         LET q == Qualifying(test_step_outputs, 1, last_call'.best_threshold)
         IN  Len(q) >= 2 * ExportCap =>
                SavedKeys(last_call'.saved) = SubSeq(q, 1, ExportCap)]_vars

(* C2: one call of on_test_epoch_end performs at most 10 exports, whatever  *)
(* was accumulated and whatever best_threshold is.                          *)
C2_ExportUpperBound ==
    last_call.op = "on_test_epoch_end" => Len(last_call.saved) <= ExportCap

\* a test epoch end over batches of which more than 10 positive pairs are at
\* or above the threshold it chose
C2_Witness ==
    /\ last_call.op = "on_test_epoch_end"
    /\ ~last_call.raised
    /\ Cardinality({k \in 1..(Len(last_call.roc[2]) \div 2) :
            (0 - last_call.roc[2][k]) >= last_call.best_threshold}) > ExportCap

(* C3: at test epoch end, below the cap, a sample whose dist_pos equals      *)
(* best_threshold is exported as a misclassified positive pair and a sample *)
(* whose dist_neg equals best_threshold is not exported as a negative pair. *)
C3_ThresholdBoundary ==
    [][EndOk("on_test_epoch_end") =>
         \A b \in 1..Len(test_step_outputs) :
           \A i \in 1..Len(test_step_outputs[b][4]) :
             LET t == last_call'.best_threshold
                 keys == Range(SavedKeys(last_call'.saved))
             IN  QualBefore(test_step_outputs, b, i, t) < ExportCap =>
                   /\ test_step_outputs[b][4][i] = t => <<b - 1, i - 1, "pos">> \in keys
                   /\ test_step_outputs[b][5][i] = t => <<b - 1, i - 1, "neg">> \notin keys]_vars

(* C4: each accumulator is empty at the start of an epoch, gains exactly    *)
(* one entry per step call in call order, is what a successful epoch end    *)
(* aggregates, and is empty after it; no other call touches it.             *)
C4_ValLifecycle ==
    /\ last_call'.op = "validation_step" =>
          validation_step_outputs' = Append(validation_step_outputs, last_call'.ret)
    /\ EndOk("on_validation_epoch_end") =>
          /\ validation_step_outputs # <<>>
          /\ validation_step_outputs' = <<>>
          /\ last_call'.roc[2] = Negate(Flat(validation_step_outputs, 2)
                                        \o Flat(validation_step_outputs, 3))
          /\ last_call'.logged[1] =
               <<"val_loss", <<SumSeq(Flat(validation_step_outputs, 1)),
                               Total(validation_step_outputs, 1)>>>>
    /\ last_call'.op \notin {"validation_step", "on_validation_epoch_end"} =>
          validation_step_outputs' = validation_step_outputs

C4_TestLifecycle ==
    /\ last_call'.op = "test_step" =>
          /\ Len(test_step_outputs') = Len(test_step_outputs) + 1
          /\ SubSeq(test_step_outputs', 1, Len(test_step_outputs)) = test_step_outputs
    /\ EndOk("on_test_epoch_end") =>
          /\ test_step_outputs # <<>>
          /\ test_step_outputs' = <<>>
          /\ last_call'.roc[2] = Negate(Flat(test_step_outputs, 4)
                                        \o Flat(test_step_outputs, 5))
    /\ last_call'.op \notin {"test_step", "on_test_epoch_end"} =>
          test_step_outputs' = test_step_outputs

(* C4, both accumulators: empty at the start, then the lifecycle above on   *)
(* every step.                                                             *)
C4_AccumulatorLifecycle ==
    /\ validation_step_outputs = <<>> /\ test_step_outputs = <<>>
    /\ [][C4_ValLifecycle /\ C4_TestLifecycle]_vars

\* a validation epoch of two step calls has just been aggregated and cleared
\* while a test epoch is under way
C4_Witness ==
    /\ last_call.op = "on_validation_epoch_end"
    /\ ~last_call.raised
    /\ validation_step_outputs = <<>>
    /\ test_step_outputs # <<>>
    /\ Len(last_call.roc[1]) >= 4

(* C5: an epoch-end handler called again right after a successful call of   *)
(* itself logs nothing and renders nothing.                                 *)
C5_EpochEndIdempotent ==
    (last_call.op \in EndOps /\ last_call.again) =>
        /\ last_call.logged = <<>>
        /\ last_call.roc = <<>>
        /\ last_call.cm = <<>>
        /\ last_call.rendered = <<>>
        /\ last_call.saved = <<>>

\* the second of two consecutive epoch-end calls has been made
C5_Witness == last_call.op \in EndOps /\ last_call.again /\ last_call.raised

(* C6: at every epoch end the labels and scores given to roc_curve have     *)
(* length twice the number of accumulated samples; the first half are the   *)
(* positive-pair distances (label 1), the second half the negative-pair     *)
(* distances (label 0), each batch by batch in accumulation order.          *)
Aligned(outs, cp, cn, roc) ==
    LET n == Total(outs, cp)
    IN  /\ Total(outs, cn) = n
        /\ Len(roc[1]) = 2 * n
        /\ Len(roc[2]) = 2 * n
        /\ \A b \in 1..Len(outs) : \A i \in 1..Len(outs[b][cp]) :
              LET k == Offset(outs, b, cp) + i
              IN  /\ roc[1][k] = 1
                  /\ roc[2][k] = 0 - outs[b][cp][i]
                  /\ roc[1][n + k] = 0
                  /\ roc[2][n + k] = 0 - outs[b][cn][i]

(* C6, at every successful validation and test epoch end: the arguments of  *)
(* roc_curve are aligned with the accumulated batches as stated above.      *)
C6_LabelScoreAlignment ==
    [][/\ EndOk("on_validation_epoch_end") =>
            Aligned(validation_step_outputs, 2, 3, last_call'.roc)
       /\ EndOk("on_test_epoch_end") =>
            Aligned(test_step_outputs, 4, 5, last_call'.roc)]_vars

\* an epoch end over at least two samples whose positive and negative
\* distances differ
C6_Witness ==
    /\ last_call.op \in EndOps
    /\ ~last_call.raised
    /\ Len(last_call.roc[1]) >= 4
    /\ last_call.roc[2][1] # last_call.roc[2][(Len(last_call.roc[2]) \div 2) + 1]

(* C7: feature_extract(x) is the anchor output of forward(x, x, x), and     *)
(* every output of forward is model(backbone(.)) of its input.              *)
C7_SharedWeights ==
    /\ last_call.op = "feature_extract" =>
          last_call.ret = TripletNet_forward(backbone, model, last_call.args[1],
                                             last_call.args[1], last_call.args[1])[1]
    /\ last_call.op = "forward" =>
          /\ \A j \in 1..3 : \A k \in 1..Len(last_call.args[j]) :
                last_call.ret[j][k] = model[backbone[last_call.args[j][k]]]
          /\ (last_call.args[1] = last_call.args[2] /\ last_call.args[2] = last_call.args[3]) =>
                last_call.ret[1] =
                    TripletNet_feature_extract(backbone, model, last_call.args[1])

\* forward(x, x, x) has run on a network that is not the identity
C7_Witness ==
    /\ last_call.op = "forward"
    /\ last_call.args[1] = last_call.args[2]
    /\ last_call.args[2] = last_call.args[3]
    /\ last_call.ret[1] # last_call.args[1]
    /\ last_call.ret[1] # [k \in 1..Len(last_call.args[1]) |-> backbone[last_call.args[1][k]]]

(* C8: the export loop performs no export and examines no sample once 10    *)
(* exports have occurred.                                                   *)
C8_ImmediateStop ==
    last_call.op = "export_scan" =>
        /\ Len(last_call.saved) <= ExportCap
        /\ \A k \in 1..Len(last_call.examined) : last_call.examined[k][3] < ExportCap

(* C9: at test epoch end, for a threshold among roc_curve's thresholds, a   *)
(* positive pair meets the export condition exactly when its confusion-     *)
(* matrix prediction is 0 and a negative pair exactly when its prediction   *)
(* is 1.                                                                    *)
C9_ExportAgreesWithConfusion ==
    (/\ last_call.op = "on_test_epoch_end"
     /\ ~last_call.raised
     /\ last_call.best_threshold \in RocThresholds(last_call.roc[2])) =>
        LET n == Len(last_call.roc[2]) \div 2
            t == last_call.best_threshold
        IN  \A k \in 1..n :
              /\ pos_misclassified(0 - last_call.roc[2][k], t) <=> last_call.y_pred[k] = 0
              /\ neg_misclassified(0 - last_call.roc[2][n + k], t)
                    <=> last_call.y_pred[n + k] = 1

(* C10: training_step changes neither accumulator; validation_step appends  *)
(* one (loss, dist_pos, dist_neg) entry to its own list only; test_step     *)
(* appends one (a, p, n, dist_pos, dist_neg) entry to its own list only;    *)
(* each epoch end leaves the other list unchanged.                          *)
C10_Frame ==
    /\ last_call'.op = "training_step" =>
          UNCHANGED <<validation_step_outputs, test_step_outputs>>
    /\ last_call'.op = "validation_step" =>
          /\ Len(validation_step_outputs') = Len(validation_step_outputs) + 1
          /\ SubSeq(validation_step_outputs', 1, Len(validation_step_outputs))
                = validation_step_outputs
          /\ Len(validation_step_outputs'[Len(validation_step_outputs')]) = 3
          /\ UNCHANGED test_step_outputs
    /\ last_call'.op = "test_step" =>
          /\ Len(test_step_outputs') = Len(test_step_outputs) + 1
          /\ SubSeq(test_step_outputs', 1, Len(test_step_outputs)) = test_step_outputs
          /\ Len(test_step_outputs'[Len(test_step_outputs')]) = 5
          /\ UNCHANGED validation_step_outputs
    /\ last_call'.op = "on_validation_epoch_end" => UNCHANGED test_step_outputs
    /\ last_call'.op = "on_test_epoch_end" => UNCHANGED validation_step_outputs

(* C10: every step of every interleaving respects the frame above.          *)
C10_StepFrame == [][C10_Frame]_vars

\* a step call has appended to a list that already held an entry while the
\* other list held one too
C10_Witness ==
    /\ last_call.op \in {"validation_step", "test_step"}
    /\ validation_step_outputs # <<>>
    /\ test_step_outputs # <<>>
    /\ Len(validation_step_outputs) + Len(test_step_outputs) >= 3
====
